---- MODULE Spec2Model ----
(***************************************************************************)
(* Model of the novamind-backend feedback-driven re-enhancement pipeline:  *)
(*   src/automation/run_automation.py  (batch orchestrator, "RA")          *)
(*   src/automation/auto_improve.py    (stand-alone enhancer, "AI")        *)
(*   src/app.py                        (web surface, "App")                *)
(***************************************************************************)
EXTENDS Integers, Sequences, FiniteSets, TLC

VARIABLES
    \* ---- feedback ledger file (learning_data.json) -------------------
    fbKind,      \* what the ledger file holds: see FbKinds
    ledger,      \* the list of feedback rows when fbKind = "list"
    \* ---- configuration ------------------------------------------------
    cfgTh,       \* CONFIG["thresholds"]["negatives_to_flag"]
    \* ---- flagged-list file (outputs_to_improve.json) and rebuild ------
    flagsFile,   \* the file's content, a sequence of JSON tokens
    flagged,     \* the list the last rebuild returned (in memory)
    negC, posC,  \* the two Counters of the last rebuild
    rbStatus,    \* "idle" | "done" | "raised"
    rbWho,       \* "none" | "ra" | "app": which rebuild ran last
    rbRuns,      \* completed rebuilds in a row by rbWho
    diskFaulty,  \* environment: a write of the flagged-list file can fail
    \* ---- one batch run (run_automation __main__ / auto_improve main) ---
    runner,      \* "none" | "ra" | "ai": the program that was started
    runPc,       \* "start" | "enhance" | "prune" | "rotate" | "completed" | "aborted"
    cfgJobs,     \* CONFIG["jobs"]: the four toggles
    cfgMargin,   \* CONFIG["thresholds"]["min_improvement_margin"]
    runFlagged,  \* flagged_ids / flagged: the list the run iterates
    idx,         \* position of the loop in runFlagged
    out,         \* per identifier: what the enhancement pass did with it
    last,        \* what the last loop iteration saw (scores or skip cause)
    jobsRun,     \* the jobs this run has executed, in order
    probe,       \* what ensure_current_stems met and did in the last iteration
    \* ---- outputs storage and logs ---------------------------------------
    dirs,        \* output_<id> directories: present, mtime, size
    cfgCap,      \* CONFIG["housekeeping"]["max_total_outputs_gb"]
    removedOld,  \* directories the age pass of the last prune removed
    evicted,     \* directories the size pass of the last prune evicted
    pruned,      \* whether prune_outputs has run
    logs,        \* the files of the log directory: present, mtime
    cfgMaxLogs,  \* CONFIG["housekeeping"]["max_log_files"]
    dirs0,       \* the storage as the last prune_outputs found it
    logs0,       \* the log directory as the last rotate_logs found it
    rotated,     \* whether rotate_logs has run
    \* ---- a writer and a reader of the flagged-list file, step by step --
    wPc,         \* "idle" | "ra_tmp" | "app_open": where the writer is
    wData,       \* the list the writer is writing
    wPos,        \* tokens of Encode(wData) written so far
    tmpFile,     \* outputs_to_improve.json.tmp
    fileOld,     \* the list the file held before the current write began
    seen,        \* what the reader's last read returned
    \* ---- the web server (app.py), threaded ------------------------------
    srv,          \* per server thread: where it is and its local variables
    nreq,        \* /feedback requests received so far
    nrb,         \* rebuilds started by the timer or by /admin/rebuild
    acked,       \* the ledger entries whose request was answered with success
    \* ---- Config Resolver (run_automation.py lines 46-99) -----------------
    cfgFile,     \* automation_config.yaml: its kind and, for a mapping, its content
    yamlOk,      \* whether `import yaml` succeeded (line 8)
    CONFIG,      \* the effective configuration
    cfgPc        \* "import" | "loaded" | "settings" | "running" | "aborted"

flagVars == <<fbKind, ledger, cfgTh, flagsFile, flagged, negC, posC,
              rbStatus, rbWho, rbRuns, diskFaulty>>

runVars == <<runner, runPc, cfgJobs, cfgMargin, runFlagged, idx, out, last, jobsRun,
             probe>>

storeVars == <<dirs, cfgCap, removedOld, evicted, pruned, logs, cfgMaxLogs, dirs0,
               logs0, rotated>>

fileVars == <<wPc, wData, wPos, tmpFile, fileOld, seen>>

serverVars == <<srv, nreq, nrb, acked>>

configVars == <<cfgFile, yamlOk, CONFIG, cfgPc>>

vars == <<flagVars, runVars, storeVars, fileVars, serverVars, configVars>>

\* ------------------------------------------------------------------------
\* Bounds of the model
\* ------------------------------------------------------------------------
MaxLedger == 4      \* longest ledger drawn
MaxRuns == 2        \* rebuilds in a row that are counted
MaxRunLedger == 2   \* longest ledger a modelled batch run starts from
MaxScore == 2       \* leakage scores are drawn from 0..MaxScore
MaxTime == 2        \* modification times are drawn from 0..MaxTime
MaxSize == 2        \* directory sizes are drawn from 0..MaxSize
MaxCap == 3         \* the size cap is drawn from 0..MaxCap
Deadline == 1       \* now - keep_days: mtimes below it are past retention
MaxKeep == 2        \* max_log_files is drawn from 0..MaxKeep
MaxRequests == 2    \* /feedback requests the modelled server receives
MaxRebuilds == 1    \* timer and /admin/rebuild rebuilds the modelled server starts

\* ------------------------------------------------------------------------
\* Identifiers, ratings, feedback rows
\* ------------------------------------------------------------------------
Ids == {"a", "b"}
NoId == ""                 \* key absent, null or blank
NoRating == "<none>"       \* "rating" key absent or null (Python None)
Ratings == {"negative", "Negative", "positive", "meh"}

\* Python's sort of the identifiers (str comparison): "a" < "b".
IdRank(i) == CASE i = "a" -> 1 [] i = "b" -> 2 [] OTHER -> 0

\* (rating or "").strip().lower() on the ratings drawn
Lower(r) ==
    CASE r = NoRating -> ""
      [] r = "Negative" -> "negative"
      [] OTHER -> r

NegWords == {"bad", "negative", "0", "1", "1-star", "poor", "no"}

\* run_automation._is_negative
IsNegative(r) == Lower(r) \in NegWords

\* A row of the ledger: output_id, job_id and rating as the JSON holds them.
Row(o, j, r) == [output_id |-> o, job_id |-> j, rating |-> r]

Rows ==
    {Row("a", NoId, r) : r \in Ratings}
      \cup {Row("b", NoId, "negative"), Row("b", NoId, "positive"),
            Row("a", NoId, NoRating),        \* no rating at all
            Row(NoId, "a", "negative")}      \* keyed by job_id only

\* run_automation._id_from_feedback: output_id or job_id or ""
IdFromFeedback(row) ==
    IF row.output_id # NoId THEN row.output_id
    ELSE IF row.job_id # NoId THEN row.job_id ELSE NoId

\* collections.Counter(l)[i]: the occurrences of i in the list l
CountOf(l, i) == Cardinality({k \in DOMAIN l : l[k] = i})

\* sorted(S) for a set of identifiers
RECURSIVE SortedSeq(_)
SortedSeq(S) ==
    IF S = {} THEN <<>>
    ELSE LET m == CHOOSE x \in S : \A y \in S : IdRank(x) <= IdRank(y)
         IN  <<m>> \o SortedSeq(S \ {m})

\* every ordering of a set (an unordered iteration of a Python set)
RECURSIVE Perms(_)
Perms(S) ==
    IF S = {} THEN {<<>>}
    ELSE UNION {{<<x>> \o p : p \in Perms(S \ {x})} : x \in S}

\* ------------------------------------------------------------------------
\* JSON encoding of the flagged list, as tokens
\* ------------------------------------------------------------------------
\* json.dump(list): "[" items "]"
Encode(l) == <<"[">> \o l \o <<"]">>

WellFormed(t) ==
    /\ Len(t) >= 2 /\ t[1] = "[" /\ t[Len(t)] = "]"
    /\ \A k \in 2..(Len(t) - 1) : t[k] \notin {"[", "]"}

\* json.load: the list, or a parse error on an empty or cut file
Decode(t) == IF WellFormed(t) THEN SubSeq(t, 2, Len(t) - 1) ELSE <<"<error>">>

\* ------------------------------------------------------------------------
\* The feedback ledger as a file
\* ------------------------------------------------------------------------
\* "list": a JSON list of row objects; "missing": no file; "unreadable": open
\* fails; "badjson": not JSON; "object": a non-empty JSON object; "null": JSON
\* null or a number; "badrows": a JSON list holding a non-object element.
FbKinds == {"list", "missing", "unreadable", "badjson", "object", "null", "badrows"}

\* run_automation.read_json: the default [] when the file is missing or the
\* open or the parse fails; otherwise whatever json.load returned
RA_ReadFails(k) == k \in {"missing", "unreadable", "badjson"}

\* `for x in fb ... x.get("rating")` raises on null (not iterable), on an
\* object (its keys are str) and on non-object elements.
RA_IterRaises(k) == k \in {"object", "null", "badrows"}

\* app.rebuild_flags_from_feedback lines 60-64: anything but a list becomes []
App_ReadEmpty(k) == k \in {"missing", "unreadable", "badjson", "object", "null"}

\* line 65: x.get on a non-object element raises outside the try
App_IterRaises(k) == k = "badrows"

\* ------------------------------------------------------------------------
\* Feedback Aggregator and Flag Builder
\* ------------------------------------------------------------------------
RA_NegSel(row) == IsNegative(row.rating)
RA_PosSel(row) == ~IsNegative(row.rating) /\ row.rating # NoRating

\* [_id_from_feedback(x) for x in rows]
IdsOfRows(rows) == [k \in DOMAIN rows |-> IdFromFeedback(rows[k])]

\* neg_ids and pos_ids of run_automation.rebuild_flags
RA_NegIds(fb) == IdsOfRows(SelectSeq(fb, RA_NegSel))
RA_PosIds(fb) == IdsOfRows(SelectSeq(fb, RA_PosSel))

\* neg / pos Counters of run_automation.rebuild_flags (blank ids dropped)
RA_Neg(fb) == [i \in Ids |-> CountOf(RA_NegIds(fb), i)]
RA_Pos(fb) == [i \in Ids |-> CountOf(RA_PosIds(fb), i)]

App_NegSel(row) == row.rating = "negative"
App_PosSel(row) == row.rating = "positive"
\* [x.get("output_id") for x in rows]
OutputIdsOfRows(rows) == [k \in DOMAIN rows |-> rows[k].output_id]

\* neg / pos Counters of app.rebuild_flags_from_feedback (`oid and` drops blanks)
App_Neg(fb) == [i \in Ids |-> CountOf(OutputIdsOfRows(SelectSeq(fb, App_NegSel)), i)]
App_Pos(fb) == [i \in Ids |-> CountOf(OutputIdsOfRows(SelectSeq(fb, App_PosSel)), i)]

\* a flag rule without the positive rescue at equality
FlagRuleNoRescue(n, p, th) == n >= 1 /\ n >= th /\ n >= p

\* the flag rule: n >= th and n > pos.get(oid, 0), for oid in neg.items()
FlagRule(n, p, th) == n >= 1 /\ n >= th /\ n > p

FlaggedSet(neg, pos, th) == {i \in Ids : FlagRule(neg[i], pos[i], th)}

\* a flagged list left in the iteration order of the set
FlagOrderingsUnsorted(S) == Perms(S)

\* the orders in which the flagged list can come out: sorted(...)
FlagOrderings(S) == {SortedSeq(S)}

\* whether a write of the flagged-list file succeeds
WriteOutcomes == IF diskFaulty THEN {TRUE, FALSE} ELSE {TRUE}

THRESHOLD_NEG == 2

ZeroCount == [i \in Ids |-> 0]

\* ------------------------------------------------------------------------
\* Initial states
\* ------------------------------------------------------------------------
RECURSIVE SeqsUpTo(_, _)
SeqsUpTo(S, n) ==
    IF n = 0 THEN {<<>>}
    ELSE LET shorter == SeqsUpTo(S, n - 1)
         IN  shorter \cup {Append(s, x) : s \in {t \in shorter : Len(t) = n - 1}, x \in S}

ThresholdChoices == {1, 2}

\* ------------------------------------------------------------------------
\* run_automation.rebuild_flags (one call)
\* ------------------------------------------------------------------------
RunsAfter(who) == IF rbWho = who /\ rbStatus = "done" THEN rbRuns + 1 ELSE 1

RebuildFlagsRA ==
    /\ RunsAfter("ra") <= MaxRuns
    /\ rbWho' = "ra"
    /\ IF RA_IterRaises(fbKind)
       THEN \* lines 145-146 raise; nothing is written
            /\ rbStatus' = "raised"
            /\ rbRuns' = 0
            /\ UNCHANGED <<flagsFile, flagged, negC, posC>>
       ELSE LET fb == IF RA_ReadFails(fbKind) THEN <<>> ELSE ledger
                neg == RA_Neg(fb)
                pos == RA_Pos(fb)
            IN  \E l \in FlagOrderings(FlaggedSet(neg, pos, cfgTh)), wok \in WriteOutcomes :
                  /\ negC' = neg
                  /\ posC' = pos
                  /\ IF wok
                     THEN \* _atomic_write_json: temp file, then os.replace
                          /\ flagsFile' = Encode(l)
                          /\ flagged' = l
                          /\ rbStatus' = "done"
                          /\ rbRuns' = RunsAfter("ra")
                     ELSE \* the write raises out of rebuild_flags (line 153)
                          /\ rbStatus' = "raised"
                          /\ rbRuns' = 0
                          /\ UNCHANGED <<flagsFile, flagged>>
    /\ UNCHANGED <<fbKind, ledger, cfgTh, diskFaulty>>

\* ------------------------------------------------------------------------
\* app.rebuild_flags_from_feedback (one call)
\* ------------------------------------------------------------------------
RebuildFlagsApp ==
    /\ RunsAfter("app") <= MaxRuns
    /\ rbWho' = "app"
    /\ IF App_IterRaises(fbKind)
       THEN /\ rbStatus' = "raised"
            /\ rbRuns' = 0
            /\ UNCHANGED <<flagsFile, flagged, negC, posC>>
       ELSE LET fb == IF App_ReadEmpty(fbKind) THEN <<>> ELSE ledger
                neg == App_Neg(fb)
                pos == App_Pos(fb)
            IN  \E l \in FlagOrderings(FlaggedSet(neg, pos, THRESHOLD_NEG)),
                   wok \in WriteOutcomes :
                  /\ negC' = neg
                  /\ posC' = pos
                  /\ IF wok
                     THEN /\ flagsFile' = Encode(l)
                          /\ flagged' = l
                          /\ rbStatus' = "done"
                          /\ rbRuns' = RunsAfter("app")
                     ELSE \* open(..., "w") or the dump raises (line 68): the
                          \* file is the old one or was already truncated
                          /\ flagsFile' \in {flagsFile, <<>>}
                          /\ rbStatus' = "raised"
                          /\ rbRuns' = 0
                          /\ UNCHANGED flagged
    /\ UNCHANGED <<fbKind, ledger, cfgTh, diskFaulty>>

\* ------------------------------------------------------------------------
\* Outputs storage: output_<id> directories
\* ------------------------------------------------------------------------
DirNames == {"a", "b", "c"}

Absent == [present |-> FALSE, mtime |-> 0, size |-> 0]

Dir(t, z) == [present |-> TRUE, mtime |-> t, size |-> z]

Present(d) == {n \in DirNames : d[n].present}

RECURSIVE SumSizes(_, _)
SumSizes(d, S) ==
    IF S = {} THEN 0
    ELSE LET n == CHOOSE x \in S : TRUE
         IN  d[n].size + SumSizes(d, S \ {n})

\* run_automation.dir_size_gb(OUTPUTS_DIR): the bytes under the outputs root
DirSize(d) == SumSizes(d, Present(d))

\* shutil.rmtree(p, ignore_errors=True)
RmTree(d, n) == [d EXCEPT ![n] = Absent]

RECURSIVE RmAll(_, _)
RmAll(d, S) ==
    IF S = {} THEN d
    ELSE LET n == CHOOSE x \in S : TRUE IN RmAll(RmTree(d, n), S \ {n})

\* an age pass that also takes a directory exactly at the deadline
ExpiredInclusive(d) == {n \in Present(d) : d[n].mtime <= Deadline}

\* age pass (lines 330-335): the directories whose mtime is before the deadline
Expired(d) == {n \in Present(d) : d[n].mtime < Deadline}

\* a size pass that takes the newest directory first
EvictionOrdersNewestFirst(d) ==
    {o \in Perms(Present(d)) :
        \A i, j \in DOMAIN o : i < j => d[o[i]].mtime >= d[o[j]].mtime}

\* sorted(glob("output_*"), key=mtime): ascending mtime; sorted() is stable, so
\* directories of equal mtime keep the order glob gave them, which is any
EvictionOrders(d) ==
    {o \in Perms(Present(d)) :
        \A i, j \in DOMAIN o : i < j => d[o[i]].mtime <= d[o[j]].mtime}

\* a loop that goes on while the total is >= cap
RECURSIVE EvictLoopToBelowCap(_, _, _)
EvictLoopToBelowCap(d, o, cap) ==
    IF DirSize(d) >= cap /\ o # <<>>
    THEN EvictLoopToBelowCap(RmTree(d, Head(o)), Tail(o), cap)
    ELSE d

\* lines 341-345: while total_gb > max_gb and dirs: victim = dirs.pop(0) ...
RECURSIVE EvictLoop(_, _, _)
EvictLoop(d, o, cap) ==
    IF DirSize(d) > cap /\ o # <<>>
    THEN EvictLoop(RmTree(d, Head(o)), Tail(o), cap)
    ELSE d

\* run_automation.prune_outputs (one call)
PruneOutputs ==
    LET aged == RmAll(dirs, Expired(dirs))
    IN  /\ dirs0' = dirs
        /\ removedOld' = Expired(dirs)
        /\ pruned' = TRUE
        /\ IF DirSize(aged) > cfgCap
           THEN \E o \in EvictionOrders(aged) :
                  /\ dirs' = EvictLoop(aged, o, cfgCap)
                  /\ evicted' = Present(aged) \ Present(dirs')
           ELSE /\ dirs' = aged
                /\ evicted' = {}
        /\ UNCHANGED <<cfgCap, logs, cfgMaxLogs, logs0, rotated>>

\* ------------------------------------------------------------------------
\* The log directory: automation_*.log of run_automation and, in the same
\* directory, auto_improve_*.log of auto_improve
\* ------------------------------------------------------------------------
LogNames == {"r1", "r2", "r3", "i1"}

\* the names that match LOG_DIR.glob("automation_*.log")
IsRunLog(n) == n \in {"r1", "r2", "r3"}

NoLog == [present |-> FALSE, mtime |-> 0]

Log(t) == [present |-> TRUE, mtime |-> t]

RunLogs(L) == {n \in LogNames : IsRunLog(n) /\ L[n].present}

\* a rotation that sorts the newest file first
LogOrdersNewestFirst(L) ==
    {o \in Perms(RunLogs(L)) :
        \A i, j \in DOMAIN o : i < j => L[o[i]].mtime >= L[o[j]].mtime}

\* sorted(glob("automation_*.log"), key=mtime): ascending mtime, files of equal
\* mtime in the order glob gave them, which is any
LogOrders(L) ==
    {o \in Perms(RunLogs(L)) :
        \A i, j \in DOMAIN o : i < j => L[o[i]].mtime <= L[o[j]].mtime}

\* files[:max(0, len(files) - keep)]
OldSlice(o, keep) ==
    LET n == IF Len(o) - keep > 0 THEN Len(o) - keep ELSE 0
    IN  {o[k] : k \in 1..(IF n < Len(o) THEN n ELSE Len(o))}

\* old.unlink() for each file of the slice
Unlink(L, S) == [n \in LogNames |-> IF n \in S THEN NoLog ELSE L[n]]

\* run_automation.rotate_logs (one call)
RotateLogs ==
    /\ \E o \in LogOrders(logs) : logs' = Unlink(logs, OldSlice(o, cfgMaxLogs))
    /\ logs0' = logs
    /\ rotated' = TRUE
    /\ UNCHANGED <<dirs, cfgCap, removedOld, evicted, pruned, cfgMaxLogs, dirs0>>

\* the log directory a run finds: three earlier run logs of distinct age
SomeLogs == [n \in LogNames |-> CASE n = "r1" -> Log(0) [] n = "r2" -> Log(1)
                                   [] n = "r3" -> Log(2) [] OTHER -> NoLog]

StoreIdle ==
    /\ dirs = [n \in DirNames |-> Absent]
    /\ cfgCap = MaxCap
    /\ removedOld = {}
    /\ evicted = {}
    /\ pruned = FALSE
    /\ logs = [n \in LogNames |-> NoLog]
    /\ cfgMaxLogs = 2
    /\ dirs0 = dirs
    /\ logs0 = logs
    /\ rotated = FALSE

\* ------------------------------------------------------------------------
\* Stem Locator/Regenerator
\* ------------------------------------------------------------------------
\* where under output_<id> a vocals/accompaniment pair lies: in input_<id>,
\* in <id>, in some other child directory, or nowhere
Layouts == {"input", "plain", "other"}

\* run_automation._find_existing_stems: the two named children, then any child
RA_Finds(lay) == lay \in {"input", "plain", "other"}

\* auto_improve.ensure_current_stems looks in input_<id> alone
AI_Finds(lay) == lay = "input"

\* what the separation engine does when invoked: it leaves a pair under one of
\* the layouts, leaves none, or raises
EngineOutcomes == Layouts \cup {"nothing", "raise"}

\* ensure_current_stems: "found" (a pair was there), "regenerated" (the engine
\* made one that is found), "nomix" (no pair, no original mix), "stillmissing"
\* (no pair found after the engine ran), "engine" (the engine raised)
Finds(who, lay) == IF who = "ra" THEN RA_Finds(lay) ELSE AI_Finds(lay)

Resolve(who, lay, mix, eng) ==
    IF Finds(who, lay) THEN "found"
    ELSE IF ~mix THEN "nomix"
    ELSE IF eng = "raise" THEN "engine"
    ELSE IF eng # "nothing" /\ Finds(who, eng) THEN "regenerated"
    ELSE "stillmissing"

\* whether ensure_current_stems calls sep.separate_to_file: no pair was found
\* by this program's search and an original.<ext> exists
Invokes(who, lay, mix) == ~Finds(who, lay) /\ mix

\* probe: lay is where a pair lay before the call ("none": nowhere), mix
\* whether an original mix is archived, invoked whether the engine was called
NoProbe == [looked |-> FALSE, lay |-> "none", mix |-> FALSE, invoked |-> FALSE]

Probe(who, lay, mix) ==
    [looked |-> TRUE, lay |-> lay, mix |-> mix, invoked |-> Invokes(who, lay, mix)]

\* every situation ensure_current_stems can meet, with its result
ResolveCases(who) ==
    {[lay |-> lay, mix |-> mix, res |-> Resolve(who, lay, mix, eng)] :
        lay \in Layouts \cup {"none"}, mix \in BOOLEAN, eng \in EngineOutcomes}

Resolutions(who) == {c.res : c \in ResolveCases(who)}

\* ------------------------------------------------------------------------
\* Chain Selector
\* ------------------------------------------------------------------------
Scores == 0..MaxScore

\* min(cand, key=score) over [baseline, mild, strong]: the first minimum wins
BestTag(base, s1, s2) ==
    IF base <= s1 /\ base <= s2 THEN "baseline"
    ELSE IF s1 <= s2 THEN "mild" ELSE "strong"

BestScore(base, s1, s2) ==
    LET t == BestTag(base, s1, s2)
    IN  IF t = "baseline" THEN base ELSE IF t = "mild" THEN s1 ELSE s2

\* an adoption test that also adopts at exactly the margin
AdoptsAtMargin(best, base, margin) == best <= base - margin

\* best[0] < base - margin
Adopts(best, base, margin) == best < base - margin

\* auto_improve.improve_one: margin = 0.0
AI_MARGIN == 0

NoScore == -1

\* a write that takes the mild pair for the strong one and the other way round
CandScoreSwapped(tag, base, s1, s2) ==
    CASE tag = "baseline" -> base
      [] tag = "mild" -> s2
      [] OTHER -> s1

\* the score of the pair written under a tag: best[1], best[2] of the candidate
\* the tag names; v_strong, a_strong for the forced one
CandScore(tag, base, s1, s2) ==
    CASE tag = "baseline" -> base
      [] tag = "mild" -> s1
      [] OTHER -> s2

\* faults of the work on one identifier after its pair is located: decoding
\* (safe_load), scoring (leakage_score, the chains) or writing (write_pair)
Faults == {"none", "decode", "score", "write"}

NoLast == [kind |-> "none"]
SkipLast(why) == [kind |-> "skip", why |-> why]
RaiseLast(why) == [kind |-> "raise", why |-> why]
\* wrote: the score of the pair this iteration wrote, NoScore when it wrote none
SelLast(base, best, tag, adopted, margin, wrote) ==
    [kind |-> "select", base |-> base, best |-> best, tag |-> tag,
     adopted |-> adopted, margin |-> margin, wrote |-> wrote]

\* out[oid]: "pending" (not reached), "nodir", "unavailable", "raised",
\* "kept" (selection reached, nothing written), or the tag of the pair written
Written == {"mild", "strong", "forced-strong"}
SelectionReached == Written \cup {"kept"}

\* the pair now stored for an identifier
StoredPair(o) == IF out[o] \in Written THEN out[o] ELSE "original"

\* enhance_flagged lines 302-321 on one pair with the scores base, s1, s2:
\* what is stored for the identifier and what the iteration saw
RA_Select(base, s1, s2, margin) ==
    LET best == BestScore(base, s1, s2)
        tag == BestTag(base, s1, s2)
    IN  IF Adopts(best, base, margin)
        THEN [result |-> tag,
              last |-> SelLast(base, best, tag, TRUE, margin,
                               CandScore(tag, base, s1, s2))]
        ELSE [result |-> "kept",
              last |-> SelLast(base, best, tag, FALSE, margin, NoScore)]

RA_Selections(margin) == {RA_Select(base, s1, s2, margin) : base, s1, s2 \in Scores}

\* improve_one lines 162-190 on one pair with the scores base, s1, s2
AI_Select(base, s1, s2) ==
    LET best == BestScore(base, s1, s2)
        tag == BestTag(base, s1, s2)
    IN  IF Adopts(best, base, AI_MARGIN)
        THEN [result |-> tag,
              last |-> SelLast(base, best, tag, TRUE, AI_MARGIN,
                               CandScore(tag, base, s1, s2))]
        ELSE [result |-> "forced-strong",
              last |-> SelLast(base, best, tag, FALSE, AI_MARGIN,
                               CandScore("forced-strong", base, s1, s2))]

AI_Selections == {AI_Select(base, s1, s2) : base, s1, s2 \in Scores}

\* ------------------------------------------------------------------------
\* run_automation.enhance_flagged: one iteration of its loop
\* ------------------------------------------------------------------------
\* an exception here leaves enhance_flagged and __main__: nothing catches it
RA_Raise(o, why) ==
    /\ out' = [out EXCEPT ![o] = "raised"]
    /\ last' = RaiseLast(why)
    /\ runPc' = "aborted"
    /\ UNCHANGED idx

RA_Continue(o, result, l) ==
    /\ out' = [out EXCEPT ![o] = result]
    /\ last' = l
    /\ idx' = idx + 1
    /\ UNCHANGED runPc

RA_EnhanceStep ==
    /\ runner = "ra" /\ runPc = "enhance"
    /\ cfgJobs.enhance_flagged /\ idx <= Len(runFlagged)
    /\ LET o == runFlagged[idx]
       IN  IF ~dirs[o].present
           THEN RA_Continue(o, "nodir", SkipLast("nodir")) /\ probe' = NoProbe
           ELSE \E c \in ResolveCases("ra") :
                LET res == c.res IN
                /\ probe' = Probe("ra", c.lay, c.mix)
                /\ IF res \in {"nomix", "stillmissing"}
                  THEN RA_Continue(o, "unavailable", SkipLast(res))
                  ELSE IF res = "engine" THEN RA_Raise(o, "engine")
                  ELSE \E f \in Faults :
                         IF f \in {"decode", "score"} THEN RA_Raise(o, f)
                         ELSE \E sel \in RA_Selections(cfgMargin) :
                                IF sel.last.adopted /\ f = "write" THEN RA_Raise(o, f)
                                ELSE RA_Continue(o, sel.result, sel.last)
    /\ UNCHANGED <<runner, cfgJobs, cfgMargin, runFlagged, jobsRun>>
    /\ UNCHANGED <<flagVars, storeVars, fileVars, serverVars, configVars>>

\* ------------------------------------------------------------------------
\* run_automation __main__
\* ------------------------------------------------------------------------
\* lines 360-362
RA_RebuildJob ==
    /\ runner = "ra" /\ runPc = "start"
    /\ IF cfgJobs.rebuild_flags
       THEN /\ RebuildFlagsRA
            /\ IF rbStatus' = "done"
               THEN /\ runFlagged' = flagged'
                    /\ runPc' = "enhance"
                    /\ jobsRun' = Append(jobsRun, "rebuild_flags")
               ELSE \* the exception leaves __main__
                    /\ runPc' = "aborted"
                    /\ UNCHANGED <<runFlagged, jobsRun>>
       ELSE /\ runPc' = "enhance"
            /\ UNCHANGED <<runFlagged, jobsRun, flagVars>>
    /\ idx' = 1
    /\ UNCHANGED <<runner, cfgJobs, cfgMargin, out, last, probe>>
    /\ UNCHANGED <<storeVars, fileVars, serverVars, configVars>>

\* lines 364-366: the loop is over, or the job is off, or nothing is flagged
RA_EnhanceDone ==
    /\ runner = "ra" /\ runPc = "enhance"
    /\ ~cfgJobs.enhance_flagged \/ idx > Len(runFlagged)
    /\ runPc' = "prune"
    /\ jobsRun' = IF cfgJobs.enhance_flagged /\ runFlagged # <<>>
                  THEN Append(jobsRun, "enhance_flagged") ELSE jobsRun
    /\ UNCHANGED <<runner, cfgJobs, cfgMargin, runFlagged, idx, out, last, probe>>
    /\ UNCHANGED <<flagVars, storeVars, fileVars, serverVars, configVars>>

\* lines 368-369
RA_PruneJob ==
    /\ runner = "ra" /\ runPc = "prune"
    /\ IF cfgJobs.prune_outputs
       THEN /\ PruneOutputs
            /\ jobsRun' = Append(jobsRun, "prune_outputs")
       ELSE UNCHANGED <<storeVars, jobsRun>>
    /\ runPc' = "rotate"
    /\ UNCHANGED <<runner, cfgJobs, cfgMargin, runFlagged, idx, out, last, probe>>
    /\ UNCHANGED <<flagVars, fileVars, serverVars, configVars>>

\* lines 371-374
RA_RotateJob ==
    /\ runner = "ra" /\ runPc = "rotate"
    /\ IF cfgJobs.rotate_logs
       THEN /\ RotateLogs
            /\ jobsRun' = Append(jobsRun, "rotate_logs")
       ELSE UNCHANGED <<storeVars, jobsRun>>
    /\ runPc' = "completed"
    /\ UNCHANGED <<runner, cfgJobs, cfgMargin, runFlagged, idx, out, last, probe>>
    /\ UNCHANGED <<flagVars, fileVars, serverVars, configVars>>

\* ------------------------------------------------------------------------
\* auto_improve main and improve_one
\* ------------------------------------------------------------------------
\* lines 195-208: the flagged-list file is loaded; a parse failure gives [],
\* and an empty list (like a missing file) ends the run at once
AI_Load ==
    /\ runner = "ai" /\ runPc = "start"
    /\ runFlagged' = IF WellFormed(flagsFile) THEN Decode(flagsFile) ELSE <<>>
    /\ runPc' = IF runFlagged' = <<>> THEN "completed" ELSE "enhance"
    /\ idx' = 1
    /\ UNCHANGED <<runner, cfgJobs, cfgMargin, out, last, jobsRun, probe>>
    /\ UNCHANGED <<flagVars, storeVars, fileVars, serverVars, configVars>>

\* lines 212-216: improve_one inside try/except; the loop goes on either way
AI_Next(o, result, l) ==
    /\ out' = [out EXCEPT ![o] = result]
    /\ last' = l
    /\ idx' = idx + 1
    /\ UNCHANGED runPc

AI_ImproveOne ==
    /\ runner = "ai" /\ runPc = "enhance" /\ idx <= Len(runFlagged)
    /\ LET o == runFlagged[idx]
       IN  IF ~dirs[o].present
           THEN AI_Next(o, "nodir", SkipLast("nodir")) /\ probe' = NoProbe
           ELSE \E c \in ResolveCases("ai") :
                LET res == c.res IN
                /\ probe' = Probe("ai", c.lay, c.mix)
                /\ IF res \in {"nomix", "stillmissing"}
                  THEN AI_Next(o, "unavailable", SkipLast(res))
                  ELSE IF res = "engine" THEN AI_Next(o, "raised", RaiseLast("engine"))
                  ELSE \E f \in Faults :
                         IF f # "none" THEN AI_Next(o, "raised", RaiseLast(f))
                         ELSE \E sel \in AI_Selections :
                                AI_Next(o, sel.result, sel.last)
    /\ UNCHANGED <<runner, cfgJobs, cfgMargin, runFlagged, jobsRun>>
    /\ UNCHANGED <<flagVars, storeVars, fileVars, serverVars, configVars>>

\* lines 218-219
AI_Done ==
    /\ runner = "ai" /\ runPc = "enhance" /\ idx > Len(runFlagged)
    /\ runPc' = "completed"
    /\ UNCHANGED <<runner, cfgJobs, cfgMargin, runFlagged, idx, out, last, jobsRun,
                   probe>>
    /\ UNCHANGED <<flagVars, storeVars, fileVars, serverVars, configVars>>

AllJobs == [rebuild_flags |-> TRUE, enhance_flagged |-> TRUE,
            prune_outputs |-> TRUE, rotate_logs |-> TRUE]

JobToggles == [rebuild_flags : BOOLEAN, enhance_flagged : BOOLEAN,
               prune_outputs : BOOLEAN, rotate_logs : BOOLEAN]

RunIdle ==
    /\ runner = "none"
    /\ runPc = "start"
    /\ cfgJobs = AllJobs
    /\ cfgMargin = 0
    /\ runFlagged = <<>>
    /\ idx = 1
    /\ out = [i \in Ids |-> "pending"]
    /\ last = NoLast
    /\ jobsRun = <<>>
    /\ probe = NoProbe

\* ------------------------------------------------------------------------
\* The flagged-list file under a concurrent reader: the writes step by step
\* ------------------------------------------------------------------------
NotRead == <<"<not read>">>

FlagLists == {SortedSeq(S) : S \in SUBSET Ids}

Prefix(t, n) == SubSeq(t, 1, n)

\* _atomic_write_json lines 109-111: the list is dumped to the .tmp sibling
RA_WriteTmp ==
    /\ wPc = "idle"
    /\ \E l \in FlagLists :
         /\ wData' = l
         /\ tmpFile' = Encode(l)
    /\ fileOld' = flagsFile
    /\ wPc' = "ra_tmp"
    /\ UNCHANGED <<flagsFile, wPos, seen>>

\* _atomic_write_json line 112: os.replace(tmp, path)
RA_Replace ==
    /\ wPc = "ra_tmp"
    /\ flagsFile' = tmpFile
    /\ tmpFile' = <<>>
    /\ wPc' = "idle"
    /\ UNCHANGED <<wData, wPos, fileOld, seen>>

\* app.rebuild_flags_from_feedback line 68: open(BAD_OUTPUTS_FILE, "w")
\* truncates the file itself
App_OpenTruncate ==
    /\ wPc = "idle"
    /\ \E l \in FlagLists : wData' = l
    /\ fileOld' = flagsFile
    /\ flagsFile' = <<>>
    /\ wPos' = 0
    /\ wPc' = "app_open"
    /\ UNCHANGED <<tmpFile, seen>>

\* line 68: json.dump writes the text through; each flush lengthens the file
App_Flush ==
    /\ wPc = "app_open"
    /\ wPos < Len(Encode(wData))
    /\ wPos' = wPos + 1
    /\ flagsFile' = Prefix(Encode(wData), wPos')
    /\ UNCHANGED <<wPc, wData, tmpFile, fileOld, seen>>

\* line 68: the file object is closed when the call returns
App_Close ==
    /\ wPc = "app_open"
    /\ wPos = Len(Encode(wData))
    /\ wPc' = "idle"
    /\ UNCHANGED <<flagsFile, wData, wPos, tmpFile, fileOld, seen>>

\* app.is_problematic_output line 73 (and auto_improve.main line 201): the
\* file is opened and read as it is at that moment
ReadFlags ==
    /\ seen' = flagsFile
    /\ UNCHANGED <<flagsFile, wPc, wData, wPos, tmpFile, fileOld>>

FileIdle ==
    /\ wPc = "idle"
    /\ wData = <<>>
    /\ wPos = 0
    /\ tmpFile = <<>>
    /\ fileOld = flagsFile
    /\ seen = NotRead

\* ------------------------------------------------------------------------
\* The web server: /feedback, /admin/rebuild and the timer loop, on threads
\* (app.run(threaded=True), threading.Thread(target=_loop)); no lock is taken
\* anywhere, so every file access below is a step of its own
\* ------------------------------------------------------------------------
Threads == {"t1", "t2"}

\* request bodies: the rating and the output_id a client sends
FeedbackRatings == {"negative", "positive", "meh"}
FeedbackOids == {"a", NoId}

\* feedback line 298: the entry (comment left empty); n stands for the timestamp
Entry(o, r, n) == [output_id |-> o, rating |-> r, comment |-> "", timestamp |-> n]

NoEntry == Entry(NoId, NoRating, 0)

ThreadIdle == [pc |-> "idle", op |-> "none", entry |-> NoEntry,
               content |-> <<>>, fl |-> <<>>]

\* a file object opened with "w" writes from offset 0 when it is flushed; what
\* another writer put there meanwhile beyond the new text stays behind it
Overlay(file, text) ==
    IF Len(file) > Len(text)
    THEN text \o SubSeq(file, Len(text) + 1, Len(file))
    ELSE text

\* feedback lines 290-297: the request is read and validated
ReceiveFeedback(t) ==
    /\ srv[t].pc = "idle"
    /\ nreq < MaxRequests
    /\ nreq' = nreq + 1
    /\ \E r \in FeedbackRatings, o \in FeedbackOids :
         IF r \notin {"positive", "negative"} \/ o = NoId
         THEN \* 400: Invalid rating / Missing output_id
              UNCHANGED srv
         ELSE srv' = [srv EXCEPT ![t] = [ThreadIdle EXCEPT !.pc = "fb_load",
                                           !.op = "feedback",
                                           !.entry = Entry(o, r, nreq')]]
    /\ UNCHANGED <<nrb, acked>>
    /\ UNCHANGED <<flagVars, runVars, storeVars, fileVars, configVars>>

\* feedback line 299: content = json.load(open(FEEDBACK_FILE)); a file that is
\* not JSON at this moment raises, and line 304 answers 500
FeedbackLoad(t) ==
    /\ srv[t].pc = "fb_load"
    /\ srv' = [srv EXCEPT ![t] =
                IF fbKind = "list"
                THEN [@ EXCEPT !.pc = "fb_open", !.content = ledger]
                ELSE ThreadIdle]
    /\ UNCHANGED <<nreq, nrb, acked>>
    /\ UNCHANGED <<flagVars, runVars, storeVars, fileVars, configVars>>

\* feedback line 301: open(FEEDBACK_FILE, "w") truncates the ledger file
FeedbackOpen(t) ==
    /\ srv[t].pc = "fb_open"
    /\ fbKind' = "badjson"
    /\ ledger' = <<>>
    /\ srv' = [srv EXCEPT ![t].pc = "fb_dump"]
    /\ UNCHANGED <<nreq, nrb, acked>>
    /\ UNCHANGED <<cfgTh, flagsFile, flagged, negC, posC, rbStatus, rbWho, rbRuns,
                   diskFaulty>>
    /\ UNCHANGED <<runVars, storeVars, fileVars, configVars>>

\* feedback lines 300-301: content.append(entry); json.dump; the text reaches
\* the file from offset 0. Entries are of one size here, so a longer list left
\* by another writer keeps its tail and the file is no longer JSON.
FeedbackDump(t) ==
    /\ srv[t].pc = "fb_dump"
    /\ LET mine == Append(srv[t].content, srv[t].entry)
       IN  IF Len(ledger) > Len(mine)
           THEN fbKind' = "badjson" /\ UNCHANGED ledger
           ELSE fbKind' = "list" /\ ledger' = mine
    /\ srv' = [srv EXCEPT ![t].pc = "rb_load"]
    /\ UNCHANGED <<nreq, nrb, acked>>
    /\ UNCHANGED <<cfgTh, flagsFile, flagged, negC, posC, rbStatus, rbWho, rbRuns,
                   diskFaulty>>
    /\ UNCHANGED <<runVars, storeVars, fileVars, configVars>>

\* _loop line 183 after a wait, or admin_rebuild line 310
StartRebuild(t) ==
    /\ srv[t].pc = "idle"
    /\ nrb < MaxRebuilds
    /\ nrb' = nrb + 1
    /\ \E op \in {"loop", "admin"} :
         srv' = [srv EXCEPT ![t] = [ThreadIdle EXCEPT !.pc = "rb_load", !.op = op]]
    /\ UNCHANGED <<nreq, acked>>
    /\ UNCHANGED <<flagVars, runVars, storeVars, fileVars, configVars>>

\* rebuild_flags_from_feedback lines 60-67: the ledger is read as it is at
\* this moment (anything but a list reads as []) and the flagged list computed
RebuildLoad(t) ==
    /\ srv[t].pc = "rb_load"
    /\ LET fb == IF App_ReadEmpty(fbKind) THEN <<>> ELSE ledger
       IN  \E l \in FlagOrderings(FlaggedSet(App_Neg(fb), App_Pos(fb), THRESHOLD_NEG)) :
             srv' = [srv EXCEPT ![t].pc = "rb_open", ![t].fl = l]
    /\ UNCHANGED <<nreq, nrb, acked>>
    /\ UNCHANGED <<flagVars, runVars, storeVars, fileVars, configVars>>

\* line 68: open(BAD_OUTPUTS_FILE, "w") truncates the flagged-list file
RebuildOpen(t) ==
    /\ srv[t].pc = "rb_open"
    /\ flagsFile' = <<>>
    /\ srv' = [srv EXCEPT ![t].pc = "rb_dump"]
    /\ UNCHANGED <<nreq, nrb, acked>>
    /\ UNCHANGED <<fbKind, ledger, cfgTh, flagged, negC, posC, rbStatus, rbWho,
                   rbRuns, diskFaulty>>
    /\ UNCHANGED <<runVars, storeVars, fileVars, configVars>>

\* line 68: json.dump and the close; then the caller answers (feedback line
\* 303 with success) or logs (line 184)
RebuildDump(t) ==
    /\ srv[t].pc = "rb_dump"
    /\ flagsFile' = Overlay(flagsFile, Encode(srv[t].fl))
    /\ acked' = IF srv[t].op = "feedback" THEN acked \cup {srv[t].entry} ELSE acked
    /\ srv' = [srv EXCEPT ![t] = ThreadIdle]
    /\ UNCHANGED <<nreq, nrb>>
    /\ UNCHANGED <<fbKind, ledger, cfgTh, flagged, negC, posC, rbStatus, rbWho,
                   rbRuns, diskFaulty>>
    /\ UNCHANGED <<runVars, storeVars, fileVars, configVars>>

ServerIdle ==
    /\ srv = [t \in Threads |-> ThreadIdle]
    /\ nreq = 0
    /\ nrb = 0
    /\ acked = {}

\* ------------------------------------------------------------------------
\* Config Resolver: DEFAULT_CONFIG overlaid by automation_config.yaml
\* ------------------------------------------------------------------------
\* a configuration value: a scalar (Val) or a mapping from keys to values (Map)
NoItems == [k \in {} |-> ""]

Val(x) == [t |-> "val", v |-> x, m |-> NoItems]

Map(f) == [t |-> "map", v |-> "", m |-> f]

IsMap(n) == n.t = "map"

\* DEFAULT_CONFIG, two of its sections; "d" stands for a default value
DEFAULT_CONFIG ==
    [k \in {"thresholds", "jobs"} |->
        IF k = "thresholds"
        THEN Map([j \in {"negatives_to_flag", "min_improvement_margin"} |-> Val("d")])
        ELSE Map([j \in {"rebuild_flags"} |-> Val("d")])]

\* the keys a file may hold: the sections above, their keys, and a section
\* and a key the defaults do not have
TopKeys == {"thresholds", "jobs", "extra"}

SubKeys(k) ==
    CASE k = "thresholds" -> {"negatives_to_flag", "min_improvement_margin"}
      [] k = "jobs" -> {"rebuild_flags"}
      [] OTHER -> {"note"}

\* values of a file: "x" is a value of the type the program expects, "bad" one
\* it cannot convert (null, a list, text where a number is read)
FileLeaves == {Val("x"), Val("bad"), Map(NoItems)}

FileNodes(k) ==
    {Val("x"), Val("bad")}
      \cup UNION {{Map(f) : f \in [S -> FileLeaves]} : S \in SUBSET SubKeys(k)}

AllFileNodes == UNION {FileNodes(k) : k \in TopKeys}

\* the mappings yaml.safe_load can return for the file
FileMaps ==
    UNION {{f \in [T -> AllFileNodes] : \A k \in T : f[k] \in FileNodes(k)} :
            T \in SUBSET TopKeys}

\* "absent": no file; "unparsable": read_text or safe_load raises; "empty":
\* safe_load returns None (or another falsy value); "scalar": a list or a
\* scalar, not a mapping; "map": a mapping
FileKinds == {"absent", "unparsable", "empty", "scalar", "map"}

ConfigFile(kind, content) == [kind |-> kind, content |-> content]

\* an update that replaces a section wholesale (dict.update)
DeepUpdateShallow(dst, src) ==
    [k \in DOMAIN dst \cup DOMAIN src |-> IF k \in DOMAIN src THEN src[k] ELSE dst[k]]

\* _deep_update lines 78-84
RECURSIVE DeepUpdate(_, _)
DeepUpdate(dst, src) ==
    [k \in DOMAIN dst \cup DOMAIN src |->
        IF k \notin DOMAIN src THEN dst[k]
        ELSE IF IsMap(src[k]) /\ k \in DOMAIN dst /\ IsMap(dst[k])
             THEN Map(DeepUpdate(dst[k].m, src[k].m))
             ELSE src[k]]

\* lines 86-93: CONFIG = DEFAULT_CONFIG.copy(); the file is applied when yaml
\* is there and the file exists; an exception of the read, the parse or
\* _deep_update (src.items() on a list or scalar) is caught and logged
LoadConfig ==
    /\ cfgPc = "import"
    /\ CONFIG' =
         IF ~yamlOk \/ cfgFile.kind \in {"absent", "unparsable", "scalar"}
         THEN DEFAULT_CONFIG
         ELSE IF cfgFile.kind = "empty" THEN DeepUpdate(DEFAULT_CONFIG, NoItems)
         ELSE DeepUpdate(DEFAULT_CONFIG, cfgFile.content)
    /\ cfgPc' = "loaded"
    /\ UNCHANGED <<cfgFile, yamlOk>>
    /\ UNCHANGED <<flagVars, runVars, storeVars, fileVars, serverVars>>

\* CONFIG[section][key] converted by int(), float() or Path: raises when the
\* section is not a mapping or the value is not convertible
Reads(cfg, section, key) ==
    /\ IsMap(cfg[section])
    /\ key \in DOMAIN cfg[section].m
    /\ cfg[section].m[key] \in {Val("d"), Val("x")}

\* lines 95-99 and 158-160: the module-level reads of CONFIG; an exception
\* here ends the program at import
ReadSettings ==
    /\ cfgPc = "loaded"
    /\ cfgPc' = IF Reads(CONFIG, "thresholds", "min_improvement_margin")
                THEN "settings" ELSE "aborted"
    /\ UNCHANGED <<cfgFile, yamlOk, CONFIG>>
    /\ UNCHANGED <<flagVars, runVars, storeVars, fileVars, serverVars>>

\* lines 361-371 and 150: __main__ reads CONFIG["jobs"][...] (any value is a
\* toggle) and rebuild_flags reads int(negatives_to_flag)
ReadJobs ==
    /\ cfgPc = "settings"
    /\ cfgPc' = IF IsMap(CONFIG["jobs"]) /\ "rebuild_flags" \in DOMAIN CONFIG["jobs"].m
                   /\ Reads(CONFIG, "thresholds", "negatives_to_flag")
                THEN "running" ELSE "aborted"
    /\ UNCHANGED <<cfgFile, yamlOk, CONFIG>>
    /\ UNCHANGED <<flagVars, runVars, storeVars, fileVars, serverVars>>

ConfigIdle ==
    /\ cfgFile = ConfigFile("absent", NoItems)
    /\ yamlOk = TRUE
    /\ CONFIG = DEFAULT_CONFIG
    /\ cfgPc = "running"

\* ------------------------------------------------------------------------
\* Initial states of the flag rebuild
\* ------------------------------------------------------------------------
FlagsInit ==
    /\ fbKind \in FbKinds
    /\ ledger \in (IF fbKind = "list" THEN SeqsUpTo(Rows, MaxLedger) ELSE {<<>>})
    /\ cfgTh \in ThresholdChoices
    /\ flagsFile = Encode(<<>>)       \* app.py lines 27-29 create it as []
    /\ flagged = <<>>
    /\ negC = ZeroCount
    /\ posC = ZeroCount
    /\ rbStatus = "idle"
    /\ rbWho = "none"
    /\ rbRuns = 0
    /\ diskFaulty = FALSE
    /\ RunIdle
    /\ StoreIdle
    /\ FileIdle
    /\ ServerIdle
    /\ ConfigIdle

\* ------------------------------------------------------------------------
\* Specification of the flag rebuild alone: any ledger, then rebuilds
\* ------------------------------------------------------------------------
CallRebuildFlagsRA == RebuildFlagsRA /\ UNCHANGED <<runVars, storeVars, fileVars, serverVars, configVars>>

CallRebuildFlagsApp == RebuildFlagsApp /\ UNCHANGED <<runVars, storeVars, fileVars, serverVars, configVars>>

FlagsNext == CallRebuildFlagsRA \/ CallRebuildFlagsApp

SpecFlags == FlagsInit /\ [][FlagsNext]_vars

\* ------------------------------------------------------------------------
\* Specification of one batch run of either program
\* ------------------------------------------------------------------------
RunRows == {Row("a", NoId, "negative"), Row("b", NoId, "negative")}

MarginChoices == {0, 1}

\* the outputs storage a run starts on: output_b is there, output_a may be
RunDirs ==
    {[n \in DirNames |->
        IF n = "b" THEN Dir(MaxTime, 1)
        ELSE IF n = "a" /\ hasA THEN Dir(Deadline, MaxSize)
        ELSE Absent] : hasA \in BOOLEAN}

RunInitRA ==
    /\ runner = "ra"
    /\ fbKind = "list"
    /\ ledger \in SeqsUpTo(RunRows, MaxRunLedger)
    /\ cfgTh = 1
    /\ cfgJobs \in JobToggles
    \* the file an earlier run or the server left: [] or ["a"] (with
    \* rebuild_flags on it is rewritten before anything reads it)
    /\ flagsFile \in (IF cfgJobs.rebuild_flags THEN {Encode(<<>>)}
                      ELSE {Encode(<<>>), Encode(<<"a">>)})
    /\ diskFaulty \in BOOLEAN
    /\ cfgMargin \in MarginChoices

RunInitAI ==
    /\ runner = "ai"
    /\ fbKind = "list"
    /\ ledger = <<>>
    /\ cfgTh = THRESHOLD_NEG
    /\ flagsFile \in {Encode(SortedSeq(S)) : S \in SUBSET Ids} \cup {<<>>}
    /\ diskFaulty = FALSE
    /\ cfgJobs = AllJobs
    /\ cfgMargin \in MarginChoices   \* a configuration auto_improve never reads

RunInit ==
    /\ RunInitRA \/ RunInitAI
    /\ flagged = <<>>
    /\ negC = ZeroCount
    /\ posC = ZeroCount
    /\ rbStatus = "idle"
    /\ rbWho = "none"
    /\ rbRuns = 0
    /\ runPc = "start"
    /\ runFlagged = <<>>
    /\ idx = 1
    /\ out = [i \in Ids |-> "pending"]
    /\ last = NoLast
    /\ jobsRun = <<>>
    /\ probe = NoProbe
    /\ dirs \in RunDirs
    /\ cfgCap = 1
    /\ removedOld = {}
    /\ evicted = {}
    /\ pruned = FALSE
    /\ logs = SomeLogs
    /\ cfgMaxLogs = 2
    /\ dirs0 = dirs
    /\ logs0 = logs
    /\ rotated = FALSE
    /\ FileIdle
    /\ ServerIdle
    /\ ConfigIdle

RunNext ==
    \/ RA_RebuildJob
    \/ RA_EnhanceStep
    \/ RA_EnhanceDone
    \/ RA_PruneJob
    \/ RA_RotateJob
    \/ AI_Load
    \/ AI_ImproveOne
    \/ AI_Done

SpecRun == RunInit /\ [][RunNext]_vars

\* ------------------------------------------------------------------------
\* Specification of prune_outputs alone: any storage, any cap, one call
\* ------------------------------------------------------------------------
DirStates == {Absent} \cup {Dir(t, z) : t \in 0..MaxTime, z \in 0..MaxSize}

PruneInit ==
    /\ dirs \in [DirNames -> DirStates]
    /\ cfgCap \in 0..MaxCap
    /\ removedOld = {}
    /\ evicted = {}
    /\ pruned = FALSE
    /\ logs = [n \in LogNames |-> NoLog]
    /\ cfgMaxLogs = 2
    /\ dirs0 = dirs
    /\ logs0 = logs
    /\ rotated = FALSE
    /\ fbKind = "list"
    /\ ledger = <<>>
    /\ cfgTh = THRESHOLD_NEG
    /\ flagsFile = Encode(<<>>)
    /\ flagged = <<>>
    /\ negC = ZeroCount
    /\ posC = ZeroCount
    /\ rbStatus = "idle"
    /\ rbWho = "none"
    /\ rbRuns = 0
    /\ diskFaulty = FALSE
    /\ RunIdle
    /\ FileIdle
    /\ ServerIdle
    /\ ConfigIdle

CallPruneOutputs == ~pruned /\ PruneOutputs /\ UNCHANGED <<flagVars, runVars, fileVars, serverVars, configVars>>

PruneNext == CallPruneOutputs

SpecPrune == PruneInit /\ [][PruneNext]_vars

\* ------------------------------------------------------------------------
\* Specification of rotate_logs alone: any log directory, any limit, one call
\* ------------------------------------------------------------------------
LogStates == {NoLog} \cup {Log(t) : t \in 0..MaxTime}

RotateInit ==
    /\ logs \in [LogNames -> LogStates]
    /\ cfgMaxLogs \in 0..MaxKeep
    /\ logs0 = logs
    /\ rotated = FALSE
    /\ dirs = [n \in DirNames |-> Absent]
    /\ cfgCap = MaxCap
    /\ removedOld = {}
    /\ evicted = {}
    /\ pruned = FALSE
    /\ dirs0 = dirs
    /\ fbKind = "list"
    /\ ledger = <<>>
    /\ cfgTh = THRESHOLD_NEG
    /\ flagsFile = Encode(<<>>)
    /\ flagged = <<>>
    /\ negC = ZeroCount
    /\ posC = ZeroCount
    /\ rbStatus = "idle"
    /\ rbWho = "none"
    /\ rbRuns = 0
    /\ diskFaulty = FALSE
    /\ RunIdle
    /\ FileIdle
    /\ ServerIdle
    /\ ConfigIdle

CallRotateLogs ==
    ~rotated /\ RotateLogs /\ UNCHANGED <<flagVars, runVars, fileVars, serverVars, configVars>>

RotateNext == CallRotateLogs

SpecRotate == RotateInit /\ [][RotateNext]_vars

\* ------------------------------------------------------------------------
\* Specification of the configuration load: any file, then the reads
\* ------------------------------------------------------------------------
ConfigInit ==
    /\ \E kind \in FileKinds :
         IF kind = "map"
         THEN \E f \in FileMaps : cfgFile = ConfigFile(kind, f)
         ELSE cfgFile = ConfigFile(kind, NoItems)
    /\ yamlOk \in BOOLEAN
    /\ CONFIG = DEFAULT_CONFIG
    /\ cfgPc = "import"
    /\ fbKind = "list"
    /\ ledger = <<>>
    /\ cfgTh = THRESHOLD_NEG
    /\ flagsFile = Encode(<<>>)
    /\ flagged = <<>>
    /\ negC = ZeroCount
    /\ posC = ZeroCount
    /\ rbStatus = "idle"
    /\ rbWho = "none"
    /\ rbRuns = 0
    /\ diskFaulty = FALSE
    /\ RunIdle
    /\ StoreIdle
    /\ FileIdle
    /\ ServerIdle

ConfigNext == LoadConfig \/ ReadSettings \/ ReadJobs

SpecConfig == ConfigInit /\ [][ConfigNext]_vars

\* ------------------------------------------------------------------------
\* Specification of one writer and one reader of the flagged-list file
\* ------------------------------------------------------------------------
FileInit ==
    /\ flagsFile \in {Encode(l) : l \in FlagLists}
    /\ FileIdle
    /\ fbKind = "list"
    /\ ledger = <<>>
    /\ cfgTh = THRESHOLD_NEG
    /\ flagged = <<>>
    /\ negC = ZeroCount
    /\ posC = ZeroCount
    /\ rbStatus = "idle"
    /\ rbWho = "none"
    /\ rbRuns = 0
    /\ diskFaulty = FALSE
    /\ RunIdle
    /\ StoreIdle
    /\ ServerIdle
    /\ ConfigIdle

FileRest == <<fbKind, ledger, cfgTh, flagged, negC, posC, rbStatus, rbWho,
              rbRuns, diskFaulty, runVars, storeVars, serverVars, configVars>>

FileNext ==
    \/ RA_WriteTmp /\ UNCHANGED FileRest
    \/ RA_Replace /\ UNCHANGED FileRest
    \/ App_OpenTruncate /\ UNCHANGED FileRest
    \/ App_Flush /\ UNCHANGED FileRest
    \/ App_Close /\ UNCHANGED FileRest
    \/ ReadFlags /\ UNCHANGED FileRest

SpecFile == FileInit /\ [][FileNext]_vars

\* ------------------------------------------------------------------------
\* Specification of the web server: requests and rebuilds on two threads
\* ------------------------------------------------------------------------
\* the ledger and the flagged list the server starts on agree (one negative
\* for "a" flags nothing at threshold 2)
ServerInit ==
    /\ fbKind = "list"
    /\ ledger \in {<<>>, <<Entry("a", "negative", 0)>>}
    /\ cfgTh = THRESHOLD_NEG
    /\ flagsFile = Encode(<<>>)
    /\ flagged = <<>>
    /\ negC = ZeroCount
    /\ posC = ZeroCount
    /\ rbStatus = "idle"
    /\ rbWho = "none"
    /\ rbRuns = 0
    /\ diskFaulty = FALSE
    /\ RunIdle
    /\ StoreIdle
    /\ FileIdle
    /\ ServerIdle
    /\ ConfigIdle

ServerNext ==
    \E t \in Threads :
      \/ ReceiveFeedback(t)
      \/ FeedbackLoad(t)
      \/ FeedbackOpen(t)
      \/ FeedbackDump(t)
      \/ StartRebuild(t)
      \/ RebuildLoad(t)
      \/ RebuildOpen(t)
      \/ RebuildDump(t)

SpecServer == ServerInit /\ [][ServerNext]_vars

\* ========================================================================
\* Properties of the flag rebuild (checked under SpecFlags)
\* ========================================================================
InList(i, l) == \E k \in DOMAIN l : l[k] = i

\* the threshold the last rebuild used
ThresholdOf(who) == IF who = "ra" THEN cfgTh ELSE THRESHOLD_NEG

\* C1: after a completed rebuild an identifier is in the flagged list (and in
\* the flagged-list file) iff its negative count is >= the threshold and
\* strictly greater than its positive count; negative=2, positive=0 at
\* threshold 2 is flagged, negative=2, positive=2 is not.
C1_FlagRule ==
    rbStatus = "done" =>
      /\ \A i \in Ids :
            InList(i, flagged)
              <=> (negC[i] >= ThresholdOf(rbWho) /\ negC[i] > posC[i])
      /\ Decode(flagsFile) = flagged
      /\ \A i \in Ids :
            (ThresholdOf(rbWho) = 2 /\ negC[i] = 2)
              => /\ posC[i] = 0 => InList(i, flagged)
                 /\ posC[i] = 2 => ~InList(i, flagged)

\* C1 witness: a completed rebuild at threshold 2 that met both named cases,
\* one identifier at 2:0 (flagged) or at 2:2 (rescued)
C1_Witness ==
    /\ rbStatus = "done"
    /\ rbWho = "ra"
    /\ cfgTh = 2
    /\ negC["a"] = 2 /\ posC["a"] = 2 /\ ~InList("a", flagged)
    /\ negC["b"] = 0

\* C6: a rebuild that follows a completed rebuild of the same kind on the same
\* ledger leaves the flagged list and the flagged-list file as they were.
C6_Idempotent ==
    [][(rbStatus = "done" /\ rbStatus' = "done" /\ rbWho' = rbWho)
         => (flagged' = flagged /\ flagsFile' = flagsFile)]_vars

\* C6 witness: the second rebuild in a row has run, with two identifiers flagged
C6_Witness == rbStatus = "done" /\ rbRuns = 2 /\ Len(flagged) = 2

\* the effective ledger a rebuild reads
LedgerRead == IF fbKind = "list" THEN ledger ELSE <<>>

\* ratings normalised case-insensitively
NormNegSel(row) == Lower(row.rating) \in NegWords
NormPosSel(row) == Lower(row.rating) = "positive"

NormIds(who, rows) == IF who = "ra" THEN IdsOfRows(rows) ELSE OutputIdsOfRows(rows)

NormFlagged(who, fb) ==
    LET neg == [i \in Ids |-> CountOf(NormIds(who, SelectSeq(fb, NormNegSel)), i)]
        pos == [i \in Ids |-> CountOf(NormIds(who, SelectSeq(fb, NormPosSel)), i)]
    IN  SortedSeq({i \in Ids : neg[i] >= ThresholdOf(who) /\ neg[i] > pos[i]})

\* C7: ratings count case-insensitively as positive or negative and a row
\* whose rating is neither is ignored, so the flagged list is the rule applied
\* to the normalised counts of the recognised rows alone.
C7_UnrecognisedIgnored ==
    rbStatus = "done" => flagged = NormFlagged(rbWho, LedgerRead)

\* C8: on a ledger that is missing, unreadable, unparsable or not a list of
\* rows, the rebuild does not raise and completes with an empty flagged list.
C8_BadLedgerIsEmpty ==
    (rbWho # "none" /\ fbKind # "list") => (rbStatus = "done" /\ flagged = <<>>)

\* ========================================================================
\* Properties of the flagged-list file under a reader (checked under SpecFile)
\* ========================================================================
\* C4: whatever a read of the flagged-list file returns while a writer runs
\* is a complete list, the one before the write or the one being written,
\* never an empty or cut file.
C4_ReaderSeesWholeList ==
    seen # NotRead => (WellFormed(seen) /\ seen \in {fileOld, Encode(wData)})

\* ========================================================================
\* Properties of a batch run (checked under SpecRun)
\* ========================================================================
\* the identifier the last loop iteration worked on
LastOid == runFlagged[idx - 1]

\* C2: once the pass has reached the selection step for an identifier, the
\* stored pair is a processed candidate and not the original; when nothing
\* beat the baseline by the margin it is the forced-strong one.
C2_NeverLeftUntouched ==
    /\ \A o \in Ids : out[o] \in SelectionReached => StoredPair(o) \in Written
    /\ (last.kind = "select" /\ ~last.adopted) => out[LastOid] = "forced-strong"

\* C3: an exception raised while one identifier is processed does not end the
\* run: the identifier is skipped and the run goes on to its completion.
C3_FailureIsolated ==
    (\E o \in Ids : out[o] = "raised") => runPc # "aborted"

\* C9: when the write of the flagged-list file fails in rebuild_flags the run
\* is not aborted and goes on with the list computed in memory.
C9_WriteFailureNotFatal ==
    (runner = "ra" /\ rbWho = "ra" /\ rbStatus = "raised")
      => /\ runPc # "aborted"
         /\ runFlagged = SortedSeq(FlaggedSet(negC, posC, cfgTh))

\* the margin each program's selector uses
MarginOf(r) == IF r = "ra" THEN cfgMargin ELSE AI_MARGIN

\* C10 as stated: the minimum-score candidate is adopted iff it beats the
\* baseline by at least the configured margin (exactly the margin counts; at
\* margin 0 it must be strictly lower), with the margin of the configuration.
C10_AdoptAtLeastMargin ==
    last.kind = "select" =>
      /\ last.margin = cfgMargin
      /\ last.adopted <=> (IF cfgMargin = 0 THEN last.best < last.base
                           ELSE last.best <= last.base - cfgMargin)

\* C10 amended: the minimum-score candidate is adopted (and is the pair
\* written) iff its score is strictly below baseline - margin, where the
\* margin is the configured one in run_automation and 0 in auto_improve.
C10_AdoptStrictlyBeyondMargin ==
    last.kind = "select" =>
      /\ last.margin = MarginOf(runner)
      /\ last.adopted <=> last.best < last.base - MarginOf(runner)
      /\ last.adopted <=> (out[LastOid] = last.tag /\ last.tag \in {"mild", "strong"})
      /\ last.best <= last.base

\* C10 witness: run_automation met a candidate that improves by exactly the
\* configured margin, and kept the stored pair
C10_Witness ==
    /\ runner = "ra"
    /\ last.kind = "select"
    /\ cfgMargin = 1
    /\ last.base - last.best = 1
    /\ ~last.adopted
    /\ out[LastOid] = "kept"

\* C11 as stated: whatever pair an enhancement pass writes for a flagged
\* identifier has a leakage score <= the baseline score of the pair it replaces.
C11_WrittenNotWorse ==
    (last.kind = "select" /\ last.wrote # NoScore) => last.wrote <= last.base

\* C11 amended: a pair written because it was adopted is the minimum-score
\* candidate and scores strictly below the baseline; the forced-strong pair
\* (auto_improve alone writes one) scores at or above the baseline.
C11_AdoptedBelowForcedNotBelow ==
    last.kind = "select" =>
      /\ last.adopted => (last.wrote = last.best /\ last.wrote < last.base)
      /\ (~last.adopted /\ runner = "ai")
           => (out[LastOid] = "forced-strong" /\ last.wrote >= last.base)
      /\ (~last.adopted /\ runner = "ra") => last.wrote = NoScore

\* C11 witness: auto_improve wrote a forced-strong pair that scores worse than
\* the baseline it replaced
C11_Witness ==
    /\ runner = "ai"
    /\ last.kind = "select"
    /\ out[LastOid] = "forced-strong"
    /\ last.wrote > last.base

\* the order of the jobs in __main__
JobOrder == <<"rebuild_flags", "enhance_flagged", "prune_outputs", "rotate_logs">>

\* the flagged list as the flagged-list file holds it
CurrentFlagged == IF WellFormed(flagsFile) THEN Decode(flagsFile) ELSE <<>>

\* a job whose toggle is on (the enhancement of an empty list counts as not run)
Due(j) ==
    /\ cfgJobs[j]
    /\ j = "enhance_flagged" => CurrentFlagged # <<>>

\* C16: in a completed run of the orchestrator every job ran iff its own
\* toggle is on, whatever the other toggles are, in the order rebuild_flags,
\* enhance_flagged, prune_outputs, rotate_logs; and with enhance_flagged on,
\* every identifier of the current flagged list was handed to the pass.
C16_JobsFollowToggles ==
    (runner = "ra" /\ runPc = "completed") =>
      /\ jobsRun = SelectSeq(JobOrder, Due)
      /\ cfgJobs.enhance_flagged
           => \A k \in DOMAIN CurrentFlagged : out[CurrentFlagged[k]] # "pending"

\* C15: ensure_current_stems calls the separation engine only when no pair
\* lies under any known layout and an original mix is archived; with neither
\* a pair nor an original, or with the pair still missing after regeneration,
\* it returns not-available, and the pass then writes nothing for the
\* identifier and goes on to the next one.
C15_EngineOnlyWithoutPair ==
    /\ (probe.looked /\ probe.invoked) => (probe.lay = "none" /\ probe.mix)
    /\ (probe.looked /\ probe.lay = "none" /\ ~probe.mix)
          => (last = SkipLast("nomix") /\ ~probe.invoked)
    /\ (last.kind = "skip" /\ last.why \in {"nomix", "stillmissing"})
          => /\ out[LastOid] = "unavailable"
             /\ runPc # "aborted"
             /\ last.why = "stillmissing" => probe.invoked

\* ========================================================================
\* Properties of the configuration load (checked under SpecConfig)
\* ========================================================================
\* the file was read, parsed and applied: its content as a mapping
Applied == yamlOk /\ cfgFile.kind \in {"empty", "map"}

FileContent == IF cfgFile.kind = "map" THEN cfgFile.content ELSE NoItems

\* a section of the file is merged into the default section when both are
\* mappings, and otherwise replaces whatever the defaults have there
Merged(k) ==
    /\ k \in DOMAIN FileContent /\ IsMap(FileContent[k])
    /\ k \in DOMAIN DEFAULT_CONFIG /\ IsMap(DEFAULT_CONFIG[k])

\* C17: the effective configuration is the defaults with every key of the
\* file overriding the default at the same nested path and every other
\* default key retained; with the file absent, unparsable or not applicable
\* it is the unmodified defaults and the run does not abort.
C17_LayeredConfig ==
    cfgPc # "import" =>
      IF Applied
      THEN /\ DOMAIN CONFIG = DOMAIN DEFAULT_CONFIG \cup DOMAIN FileContent
           /\ \A k \in DOMAIN DEFAULT_CONFIG \ DOMAIN FileContent :
                 CONFIG[k] = DEFAULT_CONFIG[k]
           /\ \A k \in DOMAIN FileContent :
                 IF Merged(k)
                 THEN /\ IsMap(CONFIG[k])
                      /\ DOMAIN CONFIG[k].m
                           = DOMAIN DEFAULT_CONFIG[k].m \cup DOMAIN FileContent[k].m
                      /\ \A j \in DOMAIN FileContent[k].m :
                            CONFIG[k].m[j] = FileContent[k].m[j]
                      /\ \A j \in DOMAIN DEFAULT_CONFIG[k].m \ DOMAIN FileContent[k].m :
                            CONFIG[k].m[j] = DEFAULT_CONFIG[k].m[j]
                 ELSE CONFIG[k] = FileContent[k]
      ELSE CONFIG = DEFAULT_CONFIG /\ cfgPc # "aborted"

\* C17 witness: a file that sets one key of a section and a section of its
\* own was applied: the other key of the section kept its default, and the
\* program went on to run
C17_Witness ==
    /\ cfgPc = "running"
    /\ Applied
    /\ cfgFile.kind = "map"
    /\ DOMAIN FileContent = {"thresholds", "extra"}
    /\ IsMap(FileContent["thresholds"])
    /\ DOMAIN FileContent["thresholds"].m = {"negatives_to_flag"}
    /\ CONFIG["thresholds"].m["negatives_to_flag"] = Val("x")
    /\ CONFIG["thresholds"].m["min_improvement_margin"] = Val("d")
    /\ CONFIG["extra"] = FileContent["extra"]

\* ========================================================================
\* Properties of rotate_logs (checked under SpecRotate)
\* ========================================================================
Unlinked == RunLogs(logs0) \ RunLogs(logs)

\* max(0, n - keep)
Excess == IF Cardinality(RunLogs(logs0)) > cfgMaxLogs
          THEN Cardinality(RunLogs(logs0)) - cfgMaxLogs ELSE 0

Quiescent == \A t \in Threads : srv[t].pc = "idle"

\* the ledger as a rebuild started now would read it
LedgerNow == IF fbKind = "list" THEN ledger ELSE <<>>

\* C12: once every in-flight submission and rebuild has completed, the
\* flagged-list file is the flag rule applied to the whole current ledger (a
\* rebuild that read an older ledger has not overwritten a newer result).
C12_QuiescentFileIsRule ==
    Quiescent =>
      flagsFile = Encode(SortedSeq(FlaggedSet(App_Neg(LedgerNow), App_Pos(LedgerNow),
                                              THRESHOLD_NEG)))

\* no thread stands between its truncation of the ledger and its dump
NoLedgerWriteInFlight == \A t \in Threads : srv[t].pc # "fb_dump"

\* a step that received a /feedback request and answered it 400
RejectedStep == nreq' = nreq + 1 /\ srv' = srv

\* C18: the ledger is append-only under concurrent submissions: the entry of
\* every /feedback request answered with success is in the ledger from then
\* on (whenever no write of the ledger is under way), so two submissions
\* handled at once are both recorded; a rejected submission leaves the
\* ledger as it was.
C18_LedgerAppendOnly ==
    /\ [](NoLedgerWriteInFlight => \A e \in acked : InList(e, LedgerNow))
    /\ [][RejectedStep => (ledger' = ledger /\ fbKind' = fbKind)]_vars

\* ========================================================================
\* Properties of the size pass of prune_outputs (checked under SpecPrune)
\* ========================================================================
\* the storage after the age pass, as the size pass found it
AfterAgePass == RmAll(dirs0, removedOld)

StopsAsSoonAsUnderCap ==
    evicted # {} =>
      \E e \in evicted :
        /\ \A f \in evicted : dirs0[f].mtime <= dirs0[e].mtime
        /\ DirSize(dirs) + dirs0[e].size > cfgCap

====
